---- MODULE Spec2Model ----
(***************************************************************************)
(* Model of flytekit's registration-time hydration helpers                 *)
(* (flytekit/clis/helpers.py), its literal-map construction, and the       *)
(* azure-cli blob persistence plugin                                       *)
(* (flytekit/extras/persistence/abfs_azurecli.py).                         *)
(*                                                                         *)
(* The three parts share no state.  Each has its own specification; a      *)
(* specification keeps the variables of the other parts at their idle      *)
(* values.                                                                 *)
(***************************************************************************)
EXTENDS Integers, Sequences, FiniteSets, TLC

VARIABLES
    \* ---- hydration (helpers.py) ----
    context,      \* the project, domain, version arguments of the call
    identifier,   \* the Identifier message passed in; mutated in place
    template,     \* the WorkflowTemplate passed to _hydrate_workflow_template
    entity,       \* the entity passed to hydrate_registration_parameters
    given,        \* the arguments as they were when the caller passed them
    trail,        \* the values returned by the calls made so far, in order
    outcome,      \* how the last call ended: "none", "returned", "AttributeError"
    \* ---- literal construction (helpers.py) ----
    parameter_map,   \* parameter_map.parameters, in the order the loop visits it
    text_args,       \* the text arguments: a function from the names given to their values
    literal_result,  \* what construct_literal_map_from_parameter_map ended with
    \* ---- azure-cli persistence (abfs_azurecli.py) ----
    azure_cfg,    \* AzureBlobConfig: storage_account_name, storage_account_key, retries
    environ,      \* os.environ: AZURE_STORAGE_ACCOUNT, AZURE_STORAGE_KEY; az on the PATH or not
    request,      \* the operation called and the abfs path it was given
    pc,           \* where the operation is: "ready", "attempt" (in the retry loop), "done"
    retry,        \* the local `retry` of _update_cmd_config_and_execute
    call_count,   \* calls of subprocess.check_call made
    sleep_count,  \* calls of time.sleep made
    exec_result,  \* how _update_cmd_config_and_execute ended
    result        \* how the operation ended

hvars == <<context, identifier, template, entity, given, trail, outcome>>

lvars == <<parameter_map, text_args, literal_result>>

avars == <<azure_cfg, environ, request, pc, retry, call_count, sleep_count, exec_result, result>>

vars == <<hvars, lvars, avars>>

----------------------------------------------------------------------------
(* Bounds *)

\* calls of _hydrate_identifier made on the same identifier
MaxCalls == 2

\* nodes of a template passed to _hydrate_workflow_template
MaxNodes == 2

\* nodes of a sub-workflow of a WorkflowSpec, and sub-workflows of a WorkflowSpec
MaxSubNodes == 1
MaxSubWorkflows == 2

\* parameters of a parameter map
MaxParameters == 2

\* the largest retry bound a configuration is given
MaxRetries == 3

----------------------------------------------------------------------------
(* Data *)

\* a value a variable holds while its part of the program is not in use
Idle == "idle"

\* string values of the project, domain, version and name fields; "" is
\* the protobuf default of an unset string field
Strings == {"", "a", "b"}

\* flyteidl.core.identifier_pb2.ResourceType
ResourceTypes == {"UNSPECIFIED", "TASK", "WORKFLOW", "LAUNCH_PLAN", "DATASET"}

Identifier(rt, p, d, n, v) ==
    [resource_type |-> rt, project |-> p, domain |-> d, name |-> n, version |-> v]

Identifiers ==
    {Identifier(rt, p, d, n, v) :
        rt \in ResourceTypes, p \in Strings, d \in Strings, n \in Strings, v \in Strings}

Contexts == [project : Strings, domain : Strings, version : Strings]

----------------------------------------------------------------------------
(* helpers.py: _hydrate_identifier *)

\* Python's `a or b` on two strings: a when a is non-empty, else b
StrOr(a, b) == IF a # "" THEN a ELSE b

\* a field mix-up: project and domain are each filled from the other
HydrateIdentifierSwapped(project, domain, version, id) ==
    [id EXCEPT !.project = StrOr(id.domain, project),
               !.domain = StrOr(id.project, domain),
               !.version = StrOr(id.version, version)]

\* the context always wins, also over a non-empty field
HydrateIdentifierOverwrite(project, domain, version, id) ==
    [id EXCEPT !.project = StrOr(project, id.project),
               !.domain = StrOr(domain, id.domain),
               !.version = StrOr(version, id.version)]

_hydrate_identifier(project, domain, version, id) ==
    [id EXCEPT !.project = StrOr(id.project, project),
               !.domain = StrOr(id.domain, domain),
               !.version = StrOr(id.version, version)]

----------------------------------------------------------------------------
(* Specification of repeated identifier hydration *)

HydrationIdle ==
    /\ context = Idle
    /\ identifier = Idle
    /\ template = Idle
    /\ entity = Idle
    /\ given = Idle
    /\ trail = <<>>
    /\ outcome = "none"

LiteralIdle ==
    /\ parameter_map = Idle
    /\ text_args = Idle
    /\ literal_result = Idle

AzureIdle ==
    /\ azure_cfg = Idle
    /\ environ = Idle
    /\ request = Idle
    /\ pc = Idle
    /\ retry = 0
    /\ call_count = 0
    /\ sleep_count = 0
    /\ exec_result = Idle
    /\ result = Idle

OthersIdle == LiteralIdle /\ AzureIdle

InitIdentifier ==
    /\ context \in Contexts
    /\ identifier \in Identifiers
    /\ given = identifier
    /\ trail = <<>>
    /\ outcome = "none"
    /\ template = Idle
    /\ entity = Idle
    /\ OthersIdle

\* a caller invokes _hydrate_identifier on the identifier it holds
HydrateIdentifierCall ==
    /\ Len(trail) < MaxCalls
    /\ identifier' =
        _hydrate_identifier(context.project, context.domain, context.version, identifier)
    /\ trail' = Append(trail, identifier')
    /\ outcome' = "returned"
    /\ UNCHANGED <<context, template, entity, given, lvars, avars>>

NextIdentifier == HydrateIdentifierCall

SpecIdentifier == InitIdentifier /\ [][NextIdentifier]_vars

\* C1: the identifier returned by _hydrate_identifier has, in each of project,
\* domain and version, the input's own value when that is non-empty and the
\* context's value otherwise; name and resource kind are the input's.
C1_HydrateContract ==
    Len(trail) >= 1 =>
        LET r == trail[1] IN
        /\ r.project = (IF given.project # "" THEN given.project ELSE context.project)
        /\ r.domain = (IF given.domain # "" THEN given.domain ELSE context.domain)
        /\ r.version = (IF given.version # "" THEN given.version ELSE context.version)
        /\ r.name = given.name
        /\ r.resource_type = given.resource_type
        /\ (given.project # "" => r.project = given.project)

\* a non-empty project met a different non-empty context project and was hydrated
C1_Witness ==
    /\ Len(trail) >= 1
    /\ given.project # ""
    /\ context.project # ""
    /\ context.project # given.project
    /\ given.domain = ""
    /\ context.domain # ""
    /\ trail[1].domain = context.domain

\* C2: hydrating the result of a hydration again with the same context gives
\* the identifier the first hydration gave.
C2_Idempotent ==
    Len(trail) >= 2 => trail[2] = trail[1]

\* a second hydration ran on an identifier the first one had changed, under a
\* context with an empty field
C2_Witness ==
    /\ Len(trail) >= 2
    /\ trail[1] # given
    /\ context.version = ""
    /\ given.version = ""

----------------------------------------------------------------------------
(* Workflow templates (flyteidl.core.workflow_pb2) *)

\* sequences over S of length at most n
SeqsUpTo(S, n) == UNION {[1..k -> S] : k \in 0..n}

\* what an unset Identifier field of a message reads as
DefaultIdentifier == Identifier("UNSPECIFIED", "", "", "", "")

\* A Node: `target` is the member of the node's target oneof that is set
\* (HasField), `ref_field` the member of the reference oneof of its task_node
\* or workflow_node that is set, `ref` the identifier held there.  `id` stands
\* for the node's other fields.  Task nodes are always serialised with their
\* reference_id set.
Node(target, ref_field, ref) ==
    [id |-> "n", target |-> target, ref_field |-> ref_field, ref |-> ref]

RefIdentifiers(rt, S) == {Identifier(rt, p, d, "a", v) : p \in S, d \in S, v \in S}

TaskNodes(S) == {Node("task_node", "reference_id", r) : r \in RefIdentifiers("TASK", S)}

WorkflowNodes(S) ==
    {Node("workflow_node", "launchplan_ref", r) : r \in RefIdentifiers("LAUNCH_PLAN", S)}
    \cup {Node("workflow_node", "sub_workflow_ref", r) : r \in RefIdentifiers("WORKFLOW", S)}
    \cup {Node("workflow_node", "none", DefaultIdentifier)}

OtherNodes ==
    {Node("branch_node", "none", DefaultIdentifier), Node("none", "none", DefaultIdentifier)}

Nodes == TaskNodes({"", "a"}) \cup WorkflowNodes({"", "a"}) \cup OtherNodes

Template(id, nodes) == [id |-> id, nodes |-> nodes]

Templates == {Template(Identifier("WORKFLOW", "", "", "a", ""), ns) : ns \in SeqsUpTo(Nodes, MaxNodes)}

\* the contexts the template and registration specifications draw from
TemplateContexts == [project : {"", "b"}, domain : {"", "b"}, version : {"", "b"}]

----------------------------------------------------------------------------
(* helpers.py: _hydrate_workflow_template *)

\* lines 103-117: the body of the loop, applied to one node
HydrateNode(project, domain, version, node) ==
    IF node.target = "task_node"
    THEN [node EXCEPT !.ref = _hydrate_identifier(project, domain, version, node.ref)]
    ELSE IF node.target = "workflow_node"
    THEN IF node.ref_field = "launchplan_ref"
         THEN [node EXCEPT !.ref = _hydrate_identifier(project, domain, version, node.ref)]
         ELSE IF node.ref_field = "sub_workflow_ref"
         THEN [node EXCEPT !.ref = _hydrate_identifier(project, domain, version, node.ref)]
         ELSE node
    ELSE node

\* lines 101-118: refreshed_nodes after the loop has run over nodes[i..]
RECURSIVE RefreshedNodes(_, _, _, _, _, _)
RefreshedNodes(project, domain, version, nodes, i, refreshed) ==
    IF i > Len(nodes)
    THEN refreshed
    ELSE RefreshedNodes(project, domain, version, nodes, i + 1,
                        Append(refreshed, HydrateNode(project, domain, version, nodes[i])))

\* the append sits inside the two branches: other nodes are lost
RECURSIVE RefreshedNodesDropOthers(_, _, _, _, _, _)
RefreshedNodesDropOthers(project, domain, version, nodes, i, refreshed) ==
    IF i > Len(nodes)
    THEN refreshed
    ELSE RefreshedNodesDropOthers(project, domain, version, nodes, i + 1,
            IF nodes[i].target \in {"task_node", "workflow_node"}
            THEN Append(refreshed, HydrateNode(project, domain, version, nodes[i]))
            ELSE refreshed)

HydrateTemplateDropOthers(project, domain, version, t) ==
    [t EXCEPT !.nodes = RefreshedNodesDropOthers(project, domain, version, t.nodes, 1, <<>>)]

\* lines 98-122
_hydrate_workflow_template(project, domain, version, t) ==
    [t EXCEPT !.nodes = RefreshedNodes(project, domain, version, t.nodes, 1, <<>>)]

----------------------------------------------------------------------------
(* Specification of template hydration *)

InitTemplate ==
    /\ context \in TemplateContexts
    /\ template \in Templates
    /\ given = template
    /\ trail = <<>>
    /\ outcome = "none"
    /\ identifier = Idle
    /\ entity = Idle
    /\ OthersIdle

\* a caller invokes _hydrate_workflow_template on the template it holds
HydrateTemplateCall ==
    /\ outcome = "none"
    /\ template' =
        _hydrate_workflow_template(context.project, context.domain, context.version, template)
    /\ trail' = Append(trail, template')
    /\ outcome' = "returned"
    /\ UNCHANGED <<context, identifier, entity, given, lvars, avars>>

NextTemplate == HydrateTemplateCall

SpecTemplate == InitTemplate /\ [][NextTemplate]_vars

IsReferenceNode(node) ==
    \/ node.target = "task_node"
    \/ node.target = "workflow_node" /\ node.ref_field # "none"

\* a with the project, domain and version of b
WithCoordinatesOf(a, b) ==
    [a EXCEPT !.project = b.project, !.domain = b.domain, !.version = b.version]

\* C4: the template returned by _hydrate_workflow_template has as many nodes as
\* the input and a node of the same kind at every index; a node that is no
\* task-reference or workflow-reference node is the input node; in the others
\* only project, domain and version of the populated reference identifier may
\* differ from the input.
C4_TemplateFrame ==
    outcome = "returned" =>
        LET out == trail[1].nodes
            inp == given.nodes
        IN  /\ Len(out) = Len(inp)
            /\ \A i \in 1..Len(inp) :
                /\ out[i].target = inp[i].target
                /\ out[i].ref_field = inp[i].ref_field
                /\ ~IsReferenceNode(inp[i]) => out[i] = inp[i]
                /\ IsReferenceNode(inp[i]) =>
                    /\ [out[i] EXCEPT !.ref = inp[i].ref] = inp[i]
                    /\ WithCoordinatesOf(out[i].ref, inp[i].ref) = inp[i].ref

\* a two-node template, a branch node before a task node whose reference the
\* hydration changed
C4_Witness ==
    /\ outcome = "returned"
    /\ Len(given.nodes) = 2
    /\ given.nodes[1].target = "branch_node"
    /\ given.nodes[2].target = "task_node"
    /\ trail[1].nodes[2] # given.nodes[2]

----------------------------------------------------------------------------
(* Entities passed to hydrate_registration_parameters (helpers.py:134-137) *)

\* nodes of the sub-workflows of the WorkflowSpecs the specification draws from
SubNodes ==
    {Node("task_node", "reference_id", Identifier("TASK", "", "", "a", "")),
     Node("workflow_node", "launchplan_ref", Identifier("LAUNCH_PLAN", "a", "", "a", "")),
     Node("workflow_node", "sub_workflow_ref", Identifier("WORKFLOW", "", "a", "a", "")),
     Node("branch_node", "none", DefaultIdentifier)}

SubWorkflowTemplates ==
    {Template(Identifier("WORKFLOW", "", "", "b", ""), ns) : ns \in SeqsUpTo(SubNodes, MaxSubNodes)}

\* what entity.template.id holds when the entity is passed in: nothing, or an
\* identifier of another entity
TemplateIds == {DefaultIdentifier, Identifier("DATASET", "a", "a", "b", "a")}

\* flyteidl.admin.launch_plan_pb2.LaunchPlanSpec: no template field
LaunchPlanSpecs ==
    {[type |-> "LaunchPlanSpec", workflow_id |-> w] :
        w \in {Identifier("WORKFLOW", "", "", "a", ""), Identifier("WORKFLOW", "a", "", "a", "a")}}

\* flyteidl.admin.task_pb2.TaskSpec: a template, no sub_workflows
TaskSpecs == {[type |-> "TaskSpec", template |-> [id |-> i]] : i \in TemplateIds}

\* flyteidl.admin.workflow_pb2.WorkflowSpec
WorkflowSpecs ==
    {[type |-> "WorkflowSpec",
      template |-> Template(i, <<Node("task_node", "reference_id", Identifier("TASK", "", "", "a", ""))>>),
      sub_workflows |-> subs] :
        i \in TemplateIds, subs \in SeqsUpTo(SubWorkflowTemplates, MaxSubWorkflows)}

Entities == LaunchPlanSpecs \cup TaskSpecs \cup WorkflowSpecs

\* the identifiers the registration specification passes as the top
\* identifier: of every resource kind, with the domain set and project and
\* version left to the context
TopIdentifiers == {Identifier(rt, "", "a", "a", "") : rt \in ResourceTypes}

RegistrationContexts ==
    {[project |-> "b", domain |-> "b", version |-> "b"],
     [project |-> "", domain |-> "b", version |-> ""]}

\* a protobuf message has the field; reading a field it has not raises AttributeError
HasAttr(msg, field) == field \in DOMAIN msg

----------------------------------------------------------------------------
(* helpers.py: hydrate_registration_parameters *)

\* lines 153-156: refreshed_sub_workflows after the loop has run over subs[i..]
RECURSIVE RefreshedSubWorkflows(_, _, _, _, _, _)
RefreshedSubWorkflows(project, domain, version, subs, i, refreshed) ==
    IF i > Len(subs)
    THEN refreshed
    ELSE RefreshedSubWorkflows(project, domain, version, subs, i + 1,
            Append(refreshed, _hydrate_workflow_template(project, domain, version, subs[i])))

Ended(id, ent, how) == [identifier |-> id, entity |-> ent, outcome |-> how]

\* the template id is merged field by field, as _hydrate_identifier merges
MergeTemplateId(ent, hid) ==
    [ent EXCEPT !.template.id =
        [@ EXCEPT !.project = StrOr(@, hid.project),
                  !.domain = StrOr(@, hid.domain),
                  !.version = StrOr(@, hid.version)]]

\* line 145: entity.template.id.CopyFrom(identifier)
SetTemplateId(ent, hid) == [ent EXCEPT !.template.id = hid]

\* the list is extended without having been cleared
ExtendSubWorkflows(ent, refreshed) ==
    [ent EXCEPT !.sub_workflows = @ \o refreshed]

\* lines 158-159: del entity.sub_workflows[:], then extend
ReassignSubWorkflows(ent, refreshed) == [ent EXCEPT !.sub_workflows = refreshed]

\* lines 125-160.  The result holds the identifier and entity objects as the
\* call leaves them (both are mutated in place) and how the call ended.
hydrate_registration_parameters(id, project, domain, version, ent) ==
    LET hid == _hydrate_identifier(project, domain, version, id) IN
    IF hid.resource_type = "LAUNCH_PLAN"
    THEN IF HasAttr(ent, "workflow_id")
         THEN Ended(hid,
                    [ent EXCEPT !.workflow_id =
                        _hydrate_identifier(project, domain, version, ent.workflow_id)],
                    "returned")
         ELSE Ended(hid, ent, "AttributeError")
    ELSE IF ~HasAttr(ent, "template")
    THEN Ended(hid, ent, "AttributeError")
    ELSE LET withId == SetTemplateId(ent, hid) IN
         IF hid.resource_type = "TASK"
         THEN Ended(hid, withId, "returned")
         ELSE IF ~HasAttr(withId, "sub_workflows")
         THEN Ended(hid, withId, "AttributeError")
         ELSE Ended(hid,
                    ReassignSubWorkflows(withId,
                        RefreshedSubWorkflows(project, domain, version,
                                              withId.sub_workflows, 1, <<>>)),
                    "returned")

----------------------------------------------------------------------------
(* Specification of registration parameter hydration *)

InitRegistration ==
    /\ context \in RegistrationContexts
    /\ identifier \in TopIdentifiers
    /\ entity \in Entities
    /\ given = [identifier |-> identifier, entity |-> entity]
    /\ trail = <<>>
    /\ outcome = "none"
    /\ template = Idle
    /\ OthersIdle

\* a caller invokes hydrate_registration_parameters
HydrateRegistrationCall ==
    /\ outcome = "none"
    /\ LET r == hydrate_registration_parameters(
                    identifier, context.project, context.domain, context.version, entity)
       IN  /\ identifier' = r.identifier
           /\ entity' = r.entity
           /\ outcome' = r.outcome
           /\ trail' = IF r.outcome = "returned"
                       THEN Append(trail, <<r.identifier, r.entity>>)
                       ELSE trail
    /\ UNCHANGED <<context, template, given, lvars, avars>>

NextRegistration == HydrateRegistrationCall

SpecRegistration == InitRegistration /\ [][NextRegistration]_vars

\* C3: with a TASK or WORKFLOW top identifier, the entity's template id after
\* hydrate_registration_parameters is the returned top identifier in every
\* field, whatever the template id held before.
C3_TemplateIdOverwritten ==
    (outcome = "returned" /\ given.identifier.resource_type \in {"TASK", "WORKFLOW"}) =>
        LET id == trail[1][1]
            tid == trail[1][2].template.id
        IN  /\ id = _hydrate_identifier(context.project, context.domain, context.version,
                                        given.identifier)
            /\ tid.resource_type = id.resource_type
            /\ tid.project = id.project
            /\ tid.domain = id.domain
            /\ tid.name = id.name
            /\ tid.version = id.version
            /\ entity.template.id = identifier

\* a template id with non-empty fields, all different from the hydrated top
\* identifier's, was overwritten
C3_Witness ==
    /\ outcome = "returned"
    /\ given.identifier.resource_type = "TASK"
    /\ given.entity.type = "TaskSpec"
    /\ given.entity.template.id.project # ""
    /\ given.entity.template.id.project # identifier.project
    /\ given.entity.template.id.name # identifier.name
    /\ given.entity.template.id.resource_type # identifier.resource_type

\* C5: with a WORKFLOW top identifier, the entity's sub-workflow list after
\* hydrate_registration_parameters has the input list's length and holds at each
\* index the template hydration of the input template there: every task,
\* launch-plan and sub-workflow reference in it is the identifier hydration of
\* its original value, and nothing else differs.
C5_SubWorkflowsHydrated ==
    (outcome = "returned" /\ given.identifier.resource_type = "WORKFLOW") =>
        LET out == trail[1][2].sub_workflows
            inp == given.entity.sub_workflows
        IN  /\ Len(out) = Len(inp)
            /\ \A i \in 1..Len(inp) :
                /\ out[i].id = inp[i].id
                /\ Len(out[i].nodes) = Len(inp[i].nodes)
                /\ \A j \in 1..Len(inp[i].nodes) :
                    LET o == out[i].nodes[j]
                        n == inp[i].nodes[j]
                    IN  IF IsReferenceNode(n)
                        THEN /\ [o EXCEPT !.ref = n.ref] = n
                             /\ o.ref.name = n.ref.name
                             /\ o.ref.resource_type = n.ref.resource_type
                             /\ o.ref.project = StrOr(n.ref.project, context.project)
                             /\ o.ref.domain = StrOr(n.ref.domain, context.domain)
                             /\ o.ref.version = StrOr(n.ref.version, context.version)
                        ELSE o = n

\* two different sub-workflows, the first with a task reference that was
\* filled in, the second with a launch-plan reference
C5_Witness ==
    /\ outcome = "returned"
    /\ given.identifier.resource_type = "WORKFLOW"
    /\ Len(given.entity.sub_workflows) = 2
    /\ Len(given.entity.sub_workflows[1].nodes) = 1
    /\ Len(given.entity.sub_workflows[2].nodes) = 1
    /\ given.entity.sub_workflows[1].nodes[1].target = "task_node"
    /\ given.entity.sub_workflows[2].nodes[1].ref_field = "launchplan_ref"
    /\ entity.sub_workflows[1].nodes[1].ref.project = "b"
    /\ entity.sub_workflows[1] # given.entity.sub_workflows[1]

\* C10: a call whose top identifier's resource kind is none of LAUNCH_PLAN,
\* TASK and WORKFLOW does not return an identifier and an entity.
C10_UnrecognizedKindIsFatal ==
    (outcome # "none" /\ given.identifier.resource_type \notin {"LAUNCH_PLAN", "TASK", "WORKFLOW"})
        => outcome # "returned"

----------------------------------------------------------------------------
(* Literal construction: parameter maps, text arguments, literals *)

ParameterNames == {"x", "y", "z"}

\* the literal types of the parameters
LiteralTypes == {"INTEGER", "STRING"}

\* the strings a caller passes as argument text
ArgStrings == {"7", "q"}

\* Python's None as the value of a text argument
None == "None"

Literal(type, value) == [type |-> type, value |-> value]

\* the default of a parameter that is not required: a Literal of its type
DefaultOf(type) == IF type = "INTEGER" THEN Literal("INTEGER", 0) ELSE Literal("STRING", "")

\* flytekit.models.interface.Parameter: var.type, required, default
Parameter(name, type, required) ==
    [name |-> name, type |-> type, required |-> required,
     default |-> IF required THEN None ELSE DefaultOf(type)]

Parameters ==
    {Parameter(n, t, r) : n \in ParameterNames, t \in LiteralTypes, r \in BOOLEAN}

\* a dict has one entry per key
DistinctNames(ps) == \A i, j \in 1..Len(ps) : ps[i].name = ps[j].name => i = j

ParameterMaps == {ps \in SeqsUpTo(Parameters, MaxParameters) : DistinctNames(ps)}

TextArgs == UNION {[D -> ArgStrings \cup {None}] : D \in SUBSET ParameterNames}

\* sdk_type.from_string of the SDK type of a literal type: the type-directed
\* parser.  An INTEGER parses a numeral and fails on other text; a STRING takes
\* any text.
FromString(type, text) ==
    IF type = "STRING" THEN [ok |-> TRUE, literal |-> Literal("STRING", text)]
    ELSE IF text = "7" THEN [ok |-> TRUE, literal |-> Literal("INTEGER", 7)]
    ELSE [ok |-> FALSE, literal |-> None]

----------------------------------------------------------------------------
(* helpers.py: construct_literal_map_from_parameter_map *)

\* `var_name in text_args and text_args[var_name] is not None`
Supplied(args, name) == name \in DOMAIN args /\ args[name] # None

Raised(kind, name) == [outcome |-> "raised", error |-> [kind |-> kind, name |-> name]]

Continue(inputs) == [outcome |-> "continue", inputs |-> inputs]

\* a missing required parameter is passed over, as the variable-map variant does
ParameterStepSkipMissing(parameter, args, inputs) ==
    IF Supplied(args, parameter.name)
    THEN LET parsed == FromString(parameter.type, args[parameter.name]) IN
         IF parsed.ok
         THEN Continue((parameter.name :> parsed.literal) @@ inputs)
         ELSE Raised("FromStringError", parameter.name)
    ELSE IF parameter.required
    THEN Continue(inputs)
    ELSE Continue((parameter.name :> parameter.default) @@ inputs)

\* a parameter without an argument gets no entry, default or not
ParameterStepNoDefault(parameter, args, inputs) ==
    IF Supplied(args, parameter.name)
    THEN LET parsed == FromString(parameter.type, args[parameter.name]) IN
         IF parsed.ok
         THEN Continue((parameter.name :> parsed.literal) @@ inputs)
         ELSE Raised("FromStringError", parameter.name)
    ELSE IF parameter.required
    THEN Raised("MissingRequiredParameter", parameter.name)
    ELSE Continue(inputs)

\* lines 65-75: the body of the loop for one parameter
ParameterStep(parameter, args, inputs) ==
    IF parameter.required
    THEN IF Supplied(args, parameter.name)
         THEN LET parsed == FromString(parameter.type, args[parameter.name]) IN
              IF parsed.ok
              THEN Continue((parameter.name :> parsed.literal) @@ inputs)
              ELSE Raised("FromStringError", parameter.name)
         ELSE Raised("MissingRequiredParameter", parameter.name)
    ELSE IF Supplied(args, parameter.name)
         THEN LET parsed == FromString(parameter.type, args[parameter.name]) IN
              IF parsed.ok
              THEN Continue((parameter.name :> parsed.literal) @@ inputs)
              ELSE Raised("FromStringError", parameter.name)
         ELSE Continue((parameter.name :> parameter.default) @@ inputs)

\* lines 63-77: the loop from parameter i on, with the inputs collected so far
RECURSIVE ConstructFrom(_, _, _, _)
ConstructFrom(parameters, args, i, inputs) ==
    IF i > Len(parameters)
    THEN [outcome |-> "returned", literals |-> inputs]
    ELSE LET step == ParameterStep(parameters[i], args, inputs) IN
         IF step.outcome = "raised"
         THEN step
         ELSE ConstructFrom(parameters, args, i + 1, step.inputs)

construct_literal_map_from_parameter_map(parameters, args) ==
    ConstructFrom(parameters, args, 1, <<>>)

----------------------------------------------------------------------------
(* Specification of literal construction *)

InitLiteral ==
    /\ parameter_map \in ParameterMaps
    /\ text_args \in TextArgs
    /\ literal_result = [outcome |-> "none"]
    /\ HydrationIdle
    /\ AzureIdle

\* a caller invokes construct_literal_map_from_parameter_map
ConstructLiteralMapCall ==
    /\ literal_result.outcome = "none"
    /\ literal_result' = construct_literal_map_from_parameter_map(parameter_map, text_args)
    /\ UNCHANGED <<parameter_map, text_args, hvars, avars>>

NextLiteral == ConstructLiteralMapCall

SpecLiteral == InitLiteral /\ [][NextLiteral]_vars

\* the indices of the required parameters without a present, non-null argument
MissingRequired ==
    {i \in 1..Len(parameter_map) :
        parameter_map[i].required /\ ~Supplied(text_args, parameter_map[i].name)}

\* the indices of the parameters whose argument is supplied and does not parse
Unparsable ==
    {i \in 1..Len(parameter_map) :
        /\ Supplied(text_args, parameter_map[i].name)
        /\ ~FromString(parameter_map[i].type, text_args[parameter_map[i].name]).ok}

Least(S) == CHOOSE i \in S : \A j \in S : i <= j

\* C6 as stated: whenever a required parameter has no entry or a null entry,
\* the call fails with the missing-required-parameter error naming such a
\* parameter, whatever was supplied for the other parameters.
C6_AlwaysMissingRequiredError ==
    (literal_result.outcome # "none" /\ MissingRequired # {}) =>
        /\ literal_result.outcome = "raised"
        /\ literal_result.error.kind = "MissingRequiredParameter"
        /\ \E i \in MissingRequired : literal_result.error.name = parameter_map[i].name

\* C6, amended: whenever a required parameter has no entry or a null entry, the
\* call returns no literal map; it raises the missing-required-parameter error
\* naming the first such parameter in iteration order, unless the argument of
\* a parameter visited before that one does not parse, and then it raises the
\* parser's error for the first such argument.
C6_MissingRequiredFails ==
    (literal_result.outcome # "none" /\ MissingRequired # {}) =>
        LET m == Least(MissingRequired)
            before == {i \in Unparsable : i < m}
        IN  /\ literal_result.outcome = "raised"
            /\ "literals" \notin DOMAIN literal_result
            /\ literal_result.error =
                IF before = {}
                THEN [kind |-> "MissingRequiredParameter", name |-> parameter_map[m].name]
                ELSE [kind |-> "FromStringError", name |-> parameter_map[Least(before)].name]

\* a required parameter without argument came second, after a parameter whose
\* argument parsed, and the call raised the missing-required-parameter error
C6_Witness ==
    /\ literal_result.outcome = "raised"
    /\ literal_result.error.kind = "MissingRequiredParameter"
    /\ Len(parameter_map) = 2
    /\ MissingRequired = {2}
    /\ Supplied(text_args, parameter_map[1].name)
    /\ literal_result.error.name = parameter_map[2].name

\* C7: when construct_literal_map_from_parameter_map succeeds, the result has
\* exactly the parameter map's keys; a parameter with a present, non-null
\* argument maps to the parse of that argument, and a parameter that is not
\* required and has none maps to its default literal itself.
C7_SuccessContents ==
    literal_result.outcome = "returned" =>
        /\ DOMAIN literal_result.literals = {parameter_map[i].name : i \in 1..Len(parameter_map)}
        /\ \A i \in 1..Len(parameter_map) :
            LET p == parameter_map[i] IN
            /\ Supplied(text_args, p.name) =>
                literal_result.literals[p.name] = FromString(p.type, text_args[p.name]).literal
            /\ (~p.required /\ ~Supplied(text_args, p.name)) =>
                literal_result.literals[p.name] = p.default

\* a successful call with one parameter parsed from its argument and another,
\* given as null, filled from its default
C7_Witness ==
    /\ literal_result.outcome = "returned"
    /\ Len(parameter_map) = 2
    /\ Supplied(text_args, parameter_map[1].name)
    /\ parameter_map[1].type = "INTEGER"
    /\ parameter_map[2].name \in DOMAIN text_args
    /\ text_args[parameter_map[2].name] = None
    /\ literal_result.literals[parameter_map[2].name] = DefaultOf(parameter_map[2].type)

----------------------------------------------------------------------------
(* abfs_azurecli.py: configuration, environment, requests *)

\* an environment variable that is not in os.environ
Unset == "unset"

\* a config value is None or "" (both false in a condition) or a name
ConfigValues == {"", "foo"}

\* an environment variable is unset, set to the empty string, or set
EnvValues == {Unset, "", "bar"}

AzureConfigs ==
    [storage_account_name : ConfigValues, storage_account_key : ConfigValues,
     retries : 0..MaxRetries]

Environments ==
    [AZURE_STORAGE_ACCOUNT : EnvValues, AZURE_STORAGE_KEY : EnvValues, az_on_path : BOOLEAN]

\* the path given: "abfs://container/blob", "abfs://container" (no slash after
\* the container), or a path of another scheme
Paths == {"abfs://c/b", "abfs://c", "s3://c/b"}

Requests == [op : {"exists", "get", "put"}, path : Paths]

\* what a failing external command writes into its exception
ErrorTexts == {"ErrorCode:ContainerNotFound", "ErrorCode:BlobNotFound", "ErrorCode:AuthenticationFailed"}

Error(type, text) == [type |-> type, text |-> text]

Raise(type, text) == [outcome |-> "raised", error |-> Error(type, text)]

Return(value) == [outcome |-> "returned", value |-> value]

NotEnded == [outcome |-> "none"]

\* Python's truth value of a config value or of os.getenv's result
Truthy(v) == v # "" /\ v # Unset

\* lines 80-85: _check_uri
ValidUri(path) == path \in {"abfs://c/b", "abfs://c"}

\* lines 88-91: path.index("/") finds a slash after the protocol
HasContainerSlash(path) == path = "abfs://c/b"

\* only the container marker is looked for
HasContainerMarkerOnly(text) == text = "ErrorCode:ContainerNotFound"

\* lines 111-114: re.search of the two markers in str(ex)
HasNotFoundMarker(text) ==
    text \in {"ErrorCode:ContainerNotFound", "ErrorCode:BlobNotFound"}

----------------------------------------------------------------------------
(* abfs_azurecli.py: _update_cmd_config_and_execute and the operations *)

\* lines 25-39: the credential checks; "ok" or the error they raise
CredentialCheck(cfg, env) ==
    IF ~Truthy(cfg.storage_account_name) /\ ~Truthy(env.AZURE_STORAGE_ACCOUNT)
    THEN Raise("ValueError", "Azure storage account name not set!")
    ELSE IF ~Truthy(cfg.storage_account_key) /\ ~Truthy(env.AZURE_STORAGE_KEY)
    THEN Raise("ValueError", "Azure storage account key not set!")
    ELSE NotEnded

\* lines 93-97: _get_storage_account_url; it reads storage_account_key as the
\* account and falls back to os.environ["AZURE_STORAGE_ACCOUNT"]
StorageAccountUrl(cfg, env) ==
    IF Truthy(cfg.storage_account_key)
    THEN Return(cfg.storage_account_key)
    ELSE IF env.AZURE_STORAGE_ACCOUNT = Unset
    THEN Raise("KeyError", "AZURE_STORAGE_ACCOUNT")
    ELSE Return(env.AZURE_STORAGE_ACCOUNT)

\* lines 100-102, 118-120, 146-148: what precedes building the command
Preamble(req, env) ==
    IF ~env.az_on_path
    THEN Raise("FlyteUserException", "az not found")
    ELSE IF ~ValidUri(req.path)
    THEN Raise("FlyteUserException", "not a valid Azure Blob url")
    ELSE IF ~HasContainerSlash(req.path)
    THEN Raise("ValueError", "substring not found")
    ELSE NotEnded

\* the retry bound is reached one failure early
ExhaustedOneEarly(n, retries) == n >= retries

\* line 48: retry > azure_cfg.retries
Exhausted(n, retries) == n > retries

\* lines 107-115, 135-143, 172: what the operation makes of the way
\* _update_cmd_config_and_execute ended
OperationResult(op, ended) ==
    IF op = "exists"
    THEN IF ended.outcome = "returned"
         THEN Return(TRUE)
         ELSE IF HasNotFoundMarker(ended.error.text)
         THEN Return(FALSE)
         ELSE ended
    ELSE ended

\* exists, get or put is called and runs up to the first external command
Invoke ==
    /\ pc = "ready"
    /\ LET pre == Preamble(request, environ)
           url == IF request.op = "exists" THEN Return("") ELSE StorageAccountUrl(azure_cfg, environ)
           cred == CredentialCheck(azure_cfg, environ)
       IN  IF pre.outcome = "raised"
           THEN /\ pc' = "done"
                /\ result' = pre
                /\ UNCHANGED exec_result
           ELSE IF url.outcome = "raised"
           THEN /\ pc' = "done"
                /\ result' = url
                /\ UNCHANGED exec_result
           ELSE IF cred.outcome = "raised"
           THEN /\ pc' = "done"
                /\ exec_result' = cred
                /\ result' = OperationResult(request.op, cred)
           ELSE /\ pc' = "attempt"
                /\ UNCHANGED <<exec_result, result>>
    /\ retry' = 0
    /\ UNCHANGED <<azure_cfg, environ, request, call_count, sleep_count, hvars, lvars>>

\* line 44: subprocess.check_call returns
AttemptSucceeds ==
    /\ pc = "attempt"
    /\ call_count' = call_count + 1
    /\ exec_result' = Return(0)
    /\ result' = OperationResult(request.op, Return(0))
    /\ pc' = "done"
    /\ UNCHANGED <<azure_cfg, environ, request, retry, sleep_count, hvars, lvars>>

\* lines 44-53: subprocess.check_call raises; the call is given up or, after a
\* sleep, tried again
AttemptFails ==
    /\ pc = "attempt"
    /\ \E text \in ErrorTexts :
        /\ call_count' = call_count + 1
        /\ retry' = retry + 1
        /\ IF Exhausted(retry', azure_cfg.retries)
           THEN /\ exec_result' = Raise("Exception", text)
                /\ result' = OperationResult(request.op, Raise("Exception", text))
                /\ pc' = "done"
                /\ UNCHANGED sleep_count
           ELSE /\ sleep_count' = sleep_count + 1
                /\ UNCHANGED <<pc, exec_result, result>>
    /\ UNCHANGED <<azure_cfg, environ, request, hvars, lvars>>

InitAzure ==
    /\ azure_cfg \in AzureConfigs
    /\ environ \in Environments
    /\ request \in Requests
    /\ pc = "ready"
    /\ retry = 0
    /\ call_count = 0
    /\ sleep_count = 0
    /\ exec_result = NotEnded
    /\ result = NotEnded
    /\ HydrationIdle
    /\ LiteralIdle

NextAzure == Invoke \/ AttemptSucceeds \/ AttemptFails

SpecAzure == InitAzure /\ [][NextAzure]_vars

\* C8: with the retry bound N >= 0, _update_cmd_config_and_execute never makes
\* more than N + 1 external calls, and when every attempt fails it re-raises
\* the failure after exactly N + 1 attempts.
C8_RetryBound ==
    /\ call_count <= azure_cfg.retries + 1
    /\ (exec_result.outcome = "raised" /\ exec_result.error.type = "Exception") =>
        /\ call_count = azure_cfg.retries + 1
        /\ sleep_count = azure_cfg.retries

\* three retries were configured, every attempt failed, and the failure was
\* re-raised at the fourth
C8_Witness ==
    /\ azure_cfg.retries = 3
    /\ exec_result.outcome = "raised"
    /\ exec_result.error.type = "Exception"
    /\ call_count = 4

\* the account name is set neither in the configuration nor in the environment
\* (a variable set to the empty string counts as not set, as in lines 28, 36)
NameUnresolved ==
    ~Truthy(azure_cfg.storage_account_name) /\ ~Truthy(environ.AZURE_STORAGE_ACCOUNT)

\* the account key is set neither in the configuration nor in the environment
KeyUnresolved ==
    ~Truthy(azure_cfg.storage_account_key) /\ ~Truthy(environ.AZURE_STORAGE_KEY)

\* an error that reports a credential that is in fact unresolved: one of the two
\* ValueErrors of _update_cmd_config_and_execute, or the KeyError of the
\* environment lookup of the account name
IsCredentialError(e) ==
    \/ e = Error("ValueError", "Azure storage account name not set!") /\ NameUnresolved
    \/ e = Error("ValueError", "Azure storage account key not set!") /\ KeyUnresolved
    \/ e = Error("KeyError", "AZURE_STORAGE_ACCOUNT") /\ NameUnresolved

\* C9: exists, get and put, called with az installed and a well-formed path
\* while the account name or the account key is set neither in the
\* configuration nor in the environment, fail with an error reporting an
\* unresolved credential, without any external call or sleep.
C9_CredentialFailFast ==
    (pc = "done" /\ environ.az_on_path /\ request.path = "abfs://c/b"
        /\ (NameUnresolved \/ KeyUnresolved)) =>
        /\ result.outcome = "raised"
        /\ IsCredentialError(result.error)
        /\ call_count = 0
        /\ sleep_count = 0

\* C11: exists returns true when the external command succeeds on some attempt
\* within the retry bound; when every attempt failed and the last error's text
\* holds ErrorCode:ContainerNotFound or ErrorCode:BlobNotFound it returns false,
\* after retries + 1 attempts; when the last error's text holds neither marker
\* the error reaches the caller.
C11_ExistsResult ==
    (pc = "done" /\ request.op = "exists" /\ exec_result.outcome # "none") =>
        IF exec_result.outcome = "returned"
        THEN /\ result.outcome = "returned"
             /\ result.value = TRUE
             /\ call_count \in 1..(azure_cfg.retries + 1)
        ELSE IF exec_result.error.text \in
                    {"ErrorCode:ContainerNotFound", "ErrorCode:BlobNotFound"}
        THEN /\ result.outcome = "returned"
             /\ result.value = FALSE
             /\ call_count = azure_cfg.retries + 1
        ELSE /\ result.outcome = "raised"
             /\ result.error = exec_result.error
             /\ (exec_result.error.type = "Exception" => call_count = azure_cfg.retries + 1)

\* exists, with three retries, saw four failures, the last one with the blob
\* marker, and returned false
C11_Witness ==
    /\ pc = "done"
    /\ request.op = "exists"
    /\ azure_cfg.retries = 3
    /\ call_count = 4
    /\ exec_result.outcome = "raised"
    /\ exec_result.error.text = "ErrorCode:BlobNotFound"
    /\ result.outcome = "returned"
    /\ result.value = FALSE

====
